---- MODULE Spec2Model ----
(***************************************************************************)
(* Model of generic-newton (src/src/lib.rs): the struct Newton<T, F, DF>,  *)
(* its constructor Newton::new and its Iterator::next, driven by a caller  *)
(* that owns up to two instances and pulls values with next() and nth(k).  *)
(*                                                                         *)
(* The numeric type T is a type parameter.  Two instantiations are         *)
(* modelled, the two kinds the crate's own test uses:                      *)
(*   "int"   a two's-complement signed integer of IntBits bits with Rust's *)
(*           operators: `/` truncates toward zero and panics on a zero     *)
(*           divisor and on MIN / -1; `-` and `*` panic on overflow when   *)
(*           the build has overflow checks and wrap otherwise;             *)
(*   "float" IEEE-754 arithmetic on the values the modelled closures can   *)
(*           reach: integers of small magnitude (where f64 is exact),      *)
(*           +inf, -inf and NaN.                                           *)
(* A value is a record [k, v]; the kind "trap" stands for a panic raised   *)
(* while an expression is evaluated (it is no value of T).                 *)
(***************************************************************************)
EXTENDS Integers, Sequences, FiniteSets

\* ------------------------------------------------------------------ bounds
IntBits == 8
MaxPulls == 6
MaxGuess == 2
MaxC == 2

Ids == {1, 2}

VARIABLES
    T,              \* the numeric type the program instantiates Newton with
    overflowChecks, \* whether T's `-` and `*` panic on overflow: for the integer
                    \* type by build profile (else they wrap), never for the float
    built,          \* the instances that have been constructed
    inst,           \* inst[i]: the struct's fields (NoInst before construction)
    args,           \* args[i]: the arguments new() was given
    ret,            \* ret[i]: what the latest next() on instance i gave its caller
    produced,       \* produced[i]: the values next() has returned, in order
    calls,          \* calls[i]: how many times next() has been entered
    evalsF,         \* evalsF[i]: the arguments func has been invoked with
    evalsDF         \* evalsDF[i]: the arguments derivative has been invoked with

vars == <<T, overflowChecks, built, inst, args, ret, produced, calls, evalsF, evalsDF>>

\* ------------------------------------------------------------------ values of T
Fin(n) == [k |-> "fin", v |-> n]
PosInf == [k |-> "inf", v |-> 1]
NegInf == [k |-> "inf", v |-> -1]
NaN == [k |-> "nan", v |-> 0]
Trap == [k |-> "trap", v |-> 0]

IsTrap(x) == x.k = "trap"
IsDegenerate(x) == x.k \in {"inf", "nan"}

RECURSIVE TwoTo(_)
TwoTo(n) == IF n = 0 THEN 1 ELSE 2 * TwoTo(n - 1)

IntMin == 0 - TwoTo(IntBits - 1)
IntMax == TwoTo(IntBits - 1) - 1
InRange(n) == IntMin <= n /\ n <= IntMax
Wrap(n) == ((n - IntMin) % TwoTo(IntBits)) + IntMin

Abs(n) == IF n < 0 THEN 0 - n ELSE n
Sgn(n) == IF n < 0 THEN -1 ELSE 1
\* Rust's integer `/` rounds toward zero (TLA+'s \div rounds down).
TruncDiv(a, b) == Sgn(a) * Sgn(b) * (Abs(a) \div Abs(b))

\* <i8 as Sub>::sub and friends: overflow panics or wraps by build profile.
IntArith(n) ==
    IF InRange(n) THEN Fin(n)
    ELSE IF overflowChecks THEN Trap ELSE Fin(Wrap(n))

ISub(a, b) == IntArith(a.v - b.v)
IMul(a, b) == IntArith(a.v * b.v)
IDiv(a, b) ==
    IF b.v = 0 THEN Trap
    ELSE IF a.v = IntMin /\ b.v = -1 THEN Trap
    ELSE Fin(TruncDiv(a.v, b.v))

\* <f64 as Sub>::sub.
FSub(a, b) ==
    CASE a.k = "nan" \/ b.k = "nan" -> NaN
      [] a.k = "inf" /\ b.k = "inf" -> IF a.v = b.v THEN NaN ELSE a
      [] a.k = "inf" /\ b.k = "fin" -> a
      [] a.k = "fin" /\ b.k = "inf" -> [k |-> "inf", v |-> 0 - b.v]
      [] a.k = "fin" /\ b.k = "fin" -> Fin(a.v - b.v)

\* <f64 as Div>::div.  A finite quotient is given where it is an integer (the
\* modelled closures divide by 0, 1 and -1 only); zero is the positive zero.
FDiv(a, b) ==
    CASE a.k = "nan" \/ b.k = "nan" -> NaN
      [] a.k = "inf" /\ b.k = "inf" -> NaN
      [] a.k = "inf" /\ b.k = "fin" -> [k |-> "inf", v |-> a.v * Sgn(b.v)]
      [] a.k = "fin" /\ b.k = "inf" -> Fin(0)
      [] a.k = "fin" /\ b.k = "fin" /\ b.v = 0 ->
            IF a.v = 0 THEN NaN ELSE [k |-> "inf", v |-> Sgn(a.v)]
      [] a.k = "fin" /\ b.k = "fin" /\ b.v # 0 /\ a.v % Abs(b.v) = 0 ->
            Fin(TruncDiv(a.v, b.v))

\* T's operators; a panic in an operand has already unwound.
Sub(a, b) ==
    IF IsTrap(a) \/ IsTrap(b) THEN Trap
    ELSE IF T = "int" THEN ISub(a, b) ELSE FSub(a, b)
Mul(a, b) ==
    IF IsTrap(a) \/ IsTrap(b) THEN Trap
    ELSE IMul(a, b)
Div(a, b) ==
    IF IsTrap(a) \/ IsTrap(b) THEN Trap
    ELSE IF T = "int" THEN IDiv(a, b) ELSE FDiv(a, b)

\* ------------------------------------------------------------------ the callables
\* F and DF are any Fn(T) -> T.  The closures the caller may pass:
\*   lin(c)   |x| x - c      const(c)  |_| c
\*   sq(c)    |x| x * x - c  twice     |x| 2 * x
Lin(c) == [kind |-> "lin", c |-> c]
Sq(c) == [kind |-> "sq", c |-> c]
Const(c) == [kind |-> "const", c |-> c]
Twice == [kind |-> "twice", c |-> 0]

Call(f, x) ==
    CASE f.kind = "lin" -> Sub(x, Fin(f.c))
      [] f.kind = "sq" -> Sub(Mul(x, x), Fin(f.c))
      [] f.kind = "const" -> Fin(f.c)
      [] f.kind = "twice" -> Mul(Fin(2), x)

Types == {"int", "float"}
Guesses(t) ==
    IF t = "int"
    THEN {Fin(n) : n \in (0 - MaxGuess)..MaxGuess} \cup {Fin(IntMin), Fin(IntMax)}
    ELSE {Fin(n) : n \in (0 - MaxGuess)..MaxGuess} \cup {PosInf, NegInf, NaN}
Funcs(t) ==
    IF t = "int"
    THEN {Lin(c) : c \in (0 - MaxC)..MaxC} \cup {Sq(c) : c \in 0..MaxC}
    ELSE {Lin(c) : c \in (0 - MaxC)..MaxC}
Derivs(t) ==
    IF t = "int"
    THEN {Const(c) : c \in {-1, 0, 1, 2}} \cup {Twice}
    ELSE {Const(c) : c \in {-1, 0, 1}}

\* ------------------------------------------------------------------ the struct
NoInst == [current |-> Trap, func |-> Const(0), derivative |-> Const(0)]
NoArgs == [initial_guess |-> Trap, func |-> Const(0), derivative |-> Const(0)]

NoCall == [tag |-> "NoCall", val |-> Trap]
None == [tag |-> "None", val |-> Trap]
Panic == [tag |-> "Panic", val |-> Trap]
Some(x) == [tag |-> "Some", val |-> x]

\* A constructor that takes the first step eagerly.
new_eager(initial_guess, func, derivative) ==
    [current |-> Sub(initial_guess,
                     Div(Call(func, initial_guess), Call(derivative, initial_guess))),
     func |-> func, derivative |-> derivative]

\* Newton::new
new(initial_guess, func, derivative) ==
    [current |-> initial_guess, func |-> func, derivative |-> derivative]

\* Variants of next() with a slip in it.
\* The value before the update is returned.
next_returns_old(self) ==
    LET nxt == Sub(self.current,
                   Div(Call(self.func, self.current), Call(self.derivative, self.current)))
    IN  [self |-> IF IsTrap(nxt) THEN self ELSE [self EXCEPT !.current = nxt],
         ret |-> IF IsTrap(nxt) THEN Panic ELSE Some(self.current),
         calledF |-> <<self.current>>, calledDF |-> <<self.current>>]

\* The assignment self.current = next is missing.
next_no_store(self) ==
    LET nxt == Sub(self.current,
                   Div(Call(self.func, self.current), Call(self.derivative, self.current)))
    IN  [self |-> self,
         ret |-> IF IsTrap(nxt) THEN Panic ELSE Some(nxt),
         calledF |-> <<self.current>>, calledDF |-> <<self.current>>]

\* A zero derivative ends the iteration.
next_stops_at_zero(self) ==
    LET dx == Call(self.derivative, self.current)
        nxt == Sub(self.current, Div(Call(self.func, self.current), dx))
    IN  [self |-> IF IsTrap(nxt) \/ dx = Fin(0) THEN self ELSE [self EXCEPT !.current = nxt],
         ret |-> IF dx = Fin(0) THEN None ELSE IF IsTrap(nxt) THEN Panic ELSE Some(nxt),
         calledF |-> <<self.current>>, calledDF |-> <<self.current>>]

\* The quotient is added instead of subtracted.
next_adds(self) ==
    LET q == Div(Call(self.func, self.current), Call(self.derivative, self.current))
        nxt == IF IsTrap(q) THEN Trap ELSE Sub(self.current, Sub(Fin(0), q))
    IN  [self |-> IF IsTrap(nxt) THEN self ELSE [self EXCEPT !.current = nxt],
         ret |-> IF IsTrap(nxt) THEN Panic ELSE Some(nxt),
         calledF |-> <<self.current>>, calledDF |-> <<self.current>>]

\* The struct is rebuilt with the derivative in the place of func.
next_clobbers_func(self) ==
    LET nxt == Sub(self.current,
                   Div(Call(self.func, self.current), Call(self.derivative, self.current)))
    IN  [self |-> IF IsTrap(nxt) THEN self
                  ELSE [current |-> nxt, func |-> self.derivative,
                        derivative |-> self.derivative],
         ret |-> IF IsTrap(nxt) THEN Panic ELSE Some(nxt),
         calledF |-> <<self.current>>, calledDF |-> <<self.current>>]

\* A zero derivative is guarded: the step is skipped and current returned.
next_guards_zero(self) ==
    LET dx == Call(self.derivative, self.current)
        nxt == IF dx = Fin(0) THEN self.current
               ELSE Sub(self.current, Div(Call(self.func, self.current), dx))
    IN  [self |-> IF IsTrap(nxt) THEN self ELSE [self EXCEPT !.current = nxt],
         ret |-> IF IsTrap(nxt) THEN Panic ELSE Some(nxt),
         calledF |-> <<self.current>>, calledDF |-> <<self.current>>]

\* The parentheses are misplaced: (current - func(current)) / deriv(current).
next_misparenthesised(self) ==
    LET nxt == Div(Sub(self.current, Call(self.func, self.current)),
                   Call(self.derivative, self.current))
    IN  [self |-> IF IsTrap(nxt) THEN self ELSE [self EXCEPT !.current = nxt],
         ret |-> IF IsTrap(nxt) THEN Panic ELSE Some(nxt),
         calledF |-> <<self.current>>, calledDF |-> <<self.current>>]

\* Newton::next on the struct `self`: the struct afterwards, what the caller
\* gets, and the arguments the two callables were invoked with.  Operands are
\* evaluated left to right; a panic unwinds before the assignment.
next(self) ==
    LET fx == Call(self.func, self.current)
        dx == IF IsTrap(fx) THEN Trap ELSE Call(self.derivative, self.current)
        nxt == Sub(self.current, Div(fx, dx))
    IN  [self |-> IF IsTrap(nxt) THEN self ELSE [self EXCEPT !.current = nxt],
         ret |-> IF IsTrap(nxt) THEN Panic ELSE Some(nxt),
         calledF |-> <<self.current>>,
         calledDF |-> IF IsTrap(fx) THEN <<>> ELSE <<self.current>>]

\* Everything the model records about one instance.
View(i) ==
    [self |-> inst[i], ret |-> ret[i], produced |-> produced[i],
     calls |-> calls[i], evalsF |-> evalsF[i], evalsDF |-> evalsDF[i]]

\* One call of next() by the caller on the instance seen as `b`.
Pull(b) ==
    LET r == next(b.self)
    IN  [self |-> r.self,
         ret |-> r.ret,
         produced |-> IF r.ret.tag = "Some" THEN Append(b.produced, r.ret.val)
                      ELSE b.produced,
         calls |-> b.calls + 1,
         evalsF |-> b.evalsF \o r.calledF,
         evalsDF |-> b.evalsDF \o r.calledDF]

\* Iterator::nth(k), the provided method: next() is called k + 1 times and the
\* last result is returned; a None or a panic on the way ends it at once.
RECURSIVE nth(_, _)
nth(b, k) ==
    LET b1 == Pull(b)
    IN  IF k = 0 \/ b1.ret.tag # "Some" THEN b1 ELSE nth(b1, k - 1)

\* The state written by a call lands in every instance (current is shared).
Store_shared(i, b) ==
    /\ inst' = [j \in Ids |-> IF j \in built THEN b.self ELSE inst[j]]
    /\ ret' = [ret EXCEPT ![i] = b.ret]
    /\ produced' = [produced EXCEPT ![i] = b.produced]
    /\ calls' = [calls EXCEPT ![i] = b.calls]
    /\ evalsF' = [evalsF EXCEPT ![i] = b.evalsF]
    /\ evalsDF' = [evalsDF EXCEPT ![i] = b.evalsDF]

\* What a call through &mut self leaves behind: instance i alone changes.
Store(i, b) ==
    /\ inst' = [inst EXCEPT ![i] = b.self]
    /\ ret' = [ret EXCEPT ![i] = b.ret]
    /\ produced' = [produced EXCEPT ![i] = b.produced]
    /\ calls' = [calls EXCEPT ![i] = b.calls]
    /\ evalsF' = [evalsF EXCEPT ![i] = b.evalsF]
    /\ evalsDF' = [evalsDF EXCEPT ![i] = b.evalsDF]

\* ------------------------------------------------------------------ the program
Init ==
    /\ T \in Types
    /\ overflowChecks \in IF T = "int" THEN BOOLEAN ELSE {FALSE}
    /\ built = {}
    /\ inst = [i \in Ids |-> NoInst]
    /\ args = [i \in Ids |-> NoArgs]
    /\ ret = [i \in Ids |-> NoCall]
    /\ produced = [i \in Ids |-> <<>>]
    /\ calls = [i \in Ids |-> 0]
    /\ evalsF = [i \in Ids |-> <<>>]
    /\ evalsDF = [i \in Ids |-> <<>>]

\* let mut n = Newton::new(g, f, df);
New(i, g, f, df) ==
    /\ i \notin built
    /\ built' = built \cup {i}
    /\ inst' = [inst EXCEPT ![i] = new(g, f, df)]
    /\ args' = [args EXCEPT ![i] = [initial_guess |-> g, func |-> f, derivative |-> df]]
    /\ UNCHANGED <<T, overflowChecks, ret, produced, calls, evalsF, evalsDF>>

\* The first instance is built from any arguments.
Construct ==
    \E g \in Guesses(T), f \in Funcs(T), df \in Derivs(T) : New(1, g, f, df)

\* A second, fresh instance is built from the same arguments, at any time.
ConstructTwin ==
    /\ 1 \in built
    /\ New(2, args[1].initial_guess, args[1].func, args[1].derivative)

\* n.next()
Next1(i) ==
    /\ i \in built
    /\ calls[i] < MaxPulls
    /\ Store(i, Pull(View(i)))
    /\ UNCHANGED <<T, overflowChecks, built, args>>

\* n.nth(k)
Nth(i, k) ==
    /\ i \in built
    /\ calls[i] + k + 1 <= MaxPulls
    /\ Store(i, nth(View(i), k))
    /\ UNCHANGED <<T, overflowChecks, built, args>>

CallNext == \E i \in Ids : Next1(i)
CallNth == \E i \in Ids, k \in 1..(MaxPulls - 1) : Nth(i, k)

Next == Construct \/ ConstructTwin \/ CallNext \/ CallNth

Spec == Init /\ [][Next]_vars

\* ------------------------------------------------------------------ properties
\* The update rule x -> x - f(x)/df(x), with the callables instance i was built from.
Update(i, x) ==
    Sub(x, Div(Call(args[i].func, x), Call(args[i].derivative, x)))

\* The update rule applied n times to the initial guess of instance i.
RECURSIVE Iterate(_, _)
Iterate(i, n) ==
    IF n = 0 THEN args[i].initial_guess ELSE Update(i, Iterate(i, n - 1))

\* current as it was before the n-th value was produced.
Before(i, n) == IF n = 1 THEN args[i].initial_guess ELSE produced[i][n - 1]

Produced(i) == 1..Len(produced[i])

\* C1: a call of next() that returns gives Some of the freshly computed
\* x - func(x)/derivative(x), x being current before the call, and current is
\* that same value afterwards (value-after-update); a call panics only where
\* T's own arithmetic has no value for that expression.
C1_NextReturnsUpdated ==
    \A i \in built :
        /\ ret[i].tag = "Some" =>
              /\ ret[i].val = inst[i].current
              /\ Len(produced[i]) > 0
              /\ ret[i].val = produced[i][Len(produced[i])]
        /\ \A n \in Produced(i) :
              produced[i][n] =
                  Sub(Before(i, n),
                      Div(Call(args[i].func, Before(i, n)),
                          Call(args[i].derivative, Before(i, n))))
        /\ ret[i].tag = "Panic" => IsTrap(Update(i, inst[i].current))

C1_Witness ==
    /\ 1 \in built
    /\ calls[1] = 1
    /\ ret[1].tag = "Some"
    /\ ret[1].val # args[1].initial_guess
    /\ inst[1].current = ret[1].val

\* C2: the N-th value pulled is the update rule applied N times to the initial
\* guess, however the pulls were grouped into next() and nth(k) calls, and the
\* cursor stands after the last value pulled: it never goes back to the guess.
C2_NthValueIsNthIterate ==
    \A i \in built :
        /\ \A n \in Produced(i) : produced[i][n] = Iterate(i, n)
        /\ inst[i].current = Iterate(i, Len(produced[i]))
        /\ ret[i].tag = "Some" => ret[i].val = Iterate(i, Len(produced[i]))

C2_Witness ==
    /\ 1 \in built
    /\ Len(produced[1]) >= 3
    /\ produced[1][1] # args[1].initial_guess
    /\ produced[1][2] # produced[1][1]
    /\ produced[1][3] # produced[1][2]
    /\ inst[1].current = produced[1][3]

\* C3 as claimed, in the case it names: a call of next() made where
\* derivative(current) is zero (func(current) having a value) yields Some(value).
C3_EveryCallYieldsSome ==
    \A i \in built :
        (/\ calls[i] > 0
         /\ Len(evalsDF[i]) = calls[i]
         /\ Call(args[i].derivative, evalsDF[i][Len(evalsDF[i])]) = Fin(0)) =>
            ret[i].tag = "Some"

\* C3 as amended: next() never returns None; over the floating-point type every
\* call yields Some, also from a degenerate current or at a zero derivative;
\* over the integer type a call yields Some unless T's arithmetic traps, and
\* then it panics and leaves current as it was.
C3_NeverNone ==
    \A i \in built :
        /\ ret[i].tag # "None"
        /\ calls[i] > 0 => ret[i].tag \in {"Some", "Panic"}
        /\ (T = "float" /\ calls[i] > 0) =>
              /\ ret[i].tag = "Some"
              /\ Len(produced[i]) = calls[i]
        /\ ret[i].tag = "Panic" =>
              /\ T = "int"
              /\ IsTrap(Update(i, inst[i].current))
              /\ inst[i].current = Iterate(i, Len(produced[i]))

C3_Witness ==
    /\ 1 \in built
    /\ T = "float"
    /\ calls[1] = MaxPulls
    /\ Call(args[1].derivative, inst[1].current) = Fin(0)
    /\ IsDegenerate(inst[1].current)
    /\ ret[1].tag = "Some"

C5_ExactFixedPoint ==
    \A i \in built :
        (T = "int" /\ args[i].func.kind = "lin" /\ args[i].derivative = Const(1)) =>
            /\ \A n \in Produced(i) : produced[i][n] = Fin(args[i].func.c)
            /\ ret[i].tag = "Some" => ret[i].val = Fin(args[i].func.c)
            /\ (args[i].initial_guess = Fin(0) /\ args[i].func = Lin(1)
                    /\ calls[i] = 6) => ret[i] = Some(Fin(1))

C5_Witness ==
    /\ 1 \in built
    /\ T = "int"
    /\ args[1] = [initial_guess |-> Fin(0), func |-> Lin(1), derivative |-> Const(1)]
    /\ calls[1] = 6
    /\ Len(produced[1]) = 6
    /\ ret[1] = Some(Fin(1))

\* C6: new() stores the guess and the two callables as given and invokes
\* neither; nothing fails at construction.  Every call of next() invokes func
\* once, and every call that returns has invoked func and derivative once each,
\* both with current as it was before the update.
C6_NewIsLazy ==
    \A i \in built :
        /\ calls[i] = 0 =>
              /\ inst[i] = [current |-> args[i].initial_guess,
                            func |-> args[i].func,
                            derivative |-> args[i].derivative]
              /\ ~IsTrap(inst[i].current)
              /\ evalsF[i] = <<>>
              /\ evalsDF[i] = <<>>
              /\ ret[i] = NoCall
        /\ Len(evalsF[i]) = calls[i]
        /\ Len(evalsDF[i]) <= calls[i]
        /\ Len(evalsDF[i]) >= Len(produced[i])
        /\ \A n \in Produced(i) :
              /\ evalsF[i][n] = Before(i, n)
              /\ evalsDF[i][n] = Before(i, n)
        /\ Len(produced[i]) = calls[i] =>
              /\ Len(evalsF[i]) = calls[i]
              /\ Len(evalsDF[i]) = calls[i]

C6_Witness ==
    /\ {1, 2} \subseteq built
    /\ calls[1] = 2
    /\ Len(produced[1]) = 2
    /\ produced[1][1] # args[1].initial_guess
    /\ evalsF[1] = <<args[1].initial_guess, produced[1][1]>>
    /\ evalsDF[1] = evalsF[1]
    /\ calls[2] = 0
    /\ inst[2].current = args[2].initial_guess
    /\ evalsF[2] = <<>>

\* C7: func and derivative stay what new() was given; current changes only in
\* a step that is a call of next() on that very instance.
C7_FrameStep ==
    \A i \in built :
        /\ inst'[i].func = inst[i].func
        /\ inst'[i].derivative = inst[i].derivative
        /\ inst'[i].current # inst[i].current => calls'[i] > calls[i]

C7_FieldsAsBuilt ==
    \A i \in built :
        /\ inst[i].func = args[i].func
        /\ inst[i].derivative = args[i].derivative

C7_Frame == [](C7_FieldsAsBuilt) /\ [][C7_FrameStep]_vars

C7_Witness ==
    /\ {1, 2} \subseteq built
    /\ calls[1] >= 2
    /\ inst[1].current # args[1].initial_guess
    /\ inst[1].func = args[1].func
    /\ inst[1].derivative = args[1].derivative
    /\ calls[2] = 0
    /\ inst[2].current = args[2].initial_guess

\* C8: where derivative(current) is zero, next() does what T's division does.
\* Over the floating-point type the step yields current - func(current)/0, an
\* infinity or a NaN, current becomes it, and each later step applies the same
\* rule to it (nothing is skipped, replaced or ended); over the integer type
\* the division traps, so the call panics and no value is ever produced from
\* a zero derivative.
C8_ZeroDerivativeUnguarded ==
    \A i \in built :
        /\ T = "float" =>
              /\ Len(produced[i]) = calls[i]
              /\ \A n \in Produced(i) :
                    Call(args[i].derivative, Before(i, n)) = Fin(0) =>
                        /\ produced[i][n] =
                              FSub(Before(i, n),
                                   FDiv(Call(args[i].func, Before(i, n)), Fin(0)))
                        /\ IsDegenerate(produced[i][n])
                        /\ \A m \in Produced(i) :
                              m > n => /\ produced[i][m] = Update(i, produced[i][m - 1])
                                       /\ IsDegenerate(produced[i][m])
              /\ calls[i] > 0 => inst[i].current = produced[i][Len(produced[i])]
        /\ T = "int" =>
              /\ \A n \in Produced(i) :
                    Call(args[i].derivative, Before(i, n)) # Fin(0)
              /\ (calls[i] > Len(produced[i])
                    /\ Call(args[i].derivative, inst[i].current) = Fin(0)
                    /\ ~IsTrap(Call(args[i].func, inst[i].current))) =>
                    /\ ret[i] = Panic
                    /\ inst[i].current = Iterate(i, Len(produced[i]))

C8_Witness ==
    /\ 1 \in built
    /\ T = "float"
    /\ args[1].initial_guess.k = "fin"
    /\ args[1].derivative = Const(0)
    /\ Len(produced[1]) = 3
    /\ produced[1][1].k = "inf"
    /\ produced[1][2] = NaN
    /\ produced[1][3] = NaN
    /\ inst[1].current = NaN

\* C10: over the integer type, once current is a root r of func with a
\* non-zero derivative there, every later next() returns r and current stays r.
IsSimpleRoot(i, x) ==
    /\ Call(args[i].func, x) = Fin(0)
    /\ ~IsTrap(Call(args[i].derivative, x))
    /\ Call(args[i].derivative, x) # Fin(0)

C10_RootIsAbsorbing ==
    \A i \in built :
        T = "int" =>
            /\ \A n \in Produced(i) :
                  IsSimpleRoot(i, Before(i, n)) => produced[i][n] = Before(i, n)
            /\ \A n \in Produced(i) : \A m \in Produced(i) :
                  (n < m /\ IsSimpleRoot(i, produced[i][n])) =>
                      produced[i][m] = produced[i][n]
            /\ (\E n \in Produced(i) : IsSimpleRoot(i, produced[i][n])) =>
                  /\ inst[i].current = produced[i][Len(produced[i])]
                  /\ ret[i].tag = "Some"
                  /\ Len(produced[i]) = calls[i]
            /\ (IsSimpleRoot(i, args[i].initial_guess) /\ calls[i] > 0) =>
                  /\ ret[i] = Some(args[i].initial_guess)
                  /\ inst[i].current = args[i].initial_guess

C10_Witness ==
    /\ 1 \in built
    /\ T = "int"
    /\ args[1].func.kind = "sq"
    /\ calls[1] >= 3
    /\ Len(produced[1]) = calls[1]
    /\ ~IsSimpleRoot(1, args[1].initial_guess)
    /\ IsSimpleRoot(1, produced[1][1])
    /\ produced[1][3] = produced[1][1]
    /\ inst[1].current = produced[1][1]

====
